---- MODULE Spec2Model ----
(***************************************************************************)
(* A model of text_codec.py: the nine codec pairs of TextEncoder and the   *)
(* registry / dispatcher EncoderDecoder.                                   *)
(*                                                                         *)
(* A text (Python str) is a sequence of Unicode code points; a bytes       *)
(* object is a sequence of integers 0..255.  A call that may raise returns *)
(* a record [exc, msg, val]: exc = "" when the call returned val, and the  *)
(* name of the Python exception class when it raised.                      *)
(***************************************************************************)
EXTENDS Integers, Sequences, FiniteSets, TLC

VARIABLES encodings, payload, scheme, log

vars == <<encodings, payload, scheme, log>>

-----------------------------------------------------------------------------
(* Results of calls *)

Ok(v) == [exc |-> "", msg |-> "", val |-> v]

Raise(e, m) == [exc |-> e, msg |-> m, val |-> <<>>]

IsOk(r) == r.exc = ""

-----------------------------------------------------------------------------
(* Sequence helpers *)

Min(a, b) == IF a < b THEN a ELSE b

\* s[i:] of Python, with i a 0-based offset
From(s, i) == SubSeq(s, i + 1, Len(s))

\* s[:n] of Python
Take(s, n) == SubSeq(s, 1, Min(n, Len(s)))

RECURSIVE Flatten(_)
Flatten(ss) == IF ss = <<>> THEN <<>> ELSE Head(ss) \o Flatten(Tail(ss))

RECURSIVE Repeat(_, _)
Repeat(c, n) == IF n <= 0 THEN <<>> ELSE <<c>> \o Repeat(c, n - 1)

\* sep.join(parts)
RECURSIVE Join(_, _)
Join(sep, parts) ==
    IF parts = <<>> THEN <<>>
    ELSE IF Len(parts) = 1 THEN parts[1]
    ELSE parts[1] \o sep \o Join(sep, Tail(parts))

IsAscii(s) == \A i \in 1..Len(s) : s[i] < 128

-----------------------------------------------------------------------------
(* str.encode('utf-8') and bytes.decode('utf-8') *)

utf8_char(cp) ==
    IF cp < 128 THEN <<cp>>
    ELSE IF cp < 2048 THEN <<192 + (cp \div 64), 128 + (cp % 64)>>
    ELSE IF cp < 65536 THEN
        <<224 + (cp \div 4096), 128 + ((cp \div 64) % 64), 128 + (cp % 64)>>
    ELSE <<240 + (cp \div 262144), 128 + ((cp \div 4096) % 64),
           128 + ((cp \div 64) % 64), 128 + (cp % 64)>>

RECURSIVE utf8_encode(_)
utf8_encode(text) ==
    IF text = <<>> THEN <<>> ELSE utf8_char(Head(text)) \o utf8_encode(Tail(text))

IsCont(b) == b >= 128 /\ b <= 191

\* Number of bytes of the sequence a lead byte starts; 0 for an invalid start byte.
SeqLen(b) ==
    IF b < 128 THEN 1
    ELSE IF b < 194 THEN 0
    ELSE IF b < 224 THEN 2
    ELSE IF b < 240 THEN 3
    ELSE IF b < 245 THEN 4
    ELSE 0

\* Whether c may follow lead byte b as its first continuation byte
\* (overlong forms, surrogates and values above U+10FFFF are rejected here).
FirstContOk(b, c) ==
    /\ IsCont(c)
    /\ (b = 224 => c >= 160)
    /\ (b = 237 => c <= 159)
    /\ (b = 240 => c >= 144)
    /\ (b = 244 => c <= 143)

\* The number of bytes, from offset i, that form a valid prefix of the
\* sequence started by s[i+1] (the lead byte counts).
ValidPrefix(s, i) ==
    LET b == s[i + 1]
        n == SeqLen(b)
        have == Len(s) - i
    IN  IF n <= 1 THEN 1
        ELSE IF have < 2 \/ ~FirstContOk(b, s[i + 2]) THEN 1
        ELSE IF n = 2 THEN 2
        ELSE IF have < 3 \/ ~IsCont(s[i + 3]) THEN 2
        ELSE IF n = 3 THEN 3
        ELSE IF have < 4 \/ ~IsCont(s[i + 4]) THEN 3
        ELSE 4

CodePoint(s, i, n) ==
    IF n = 1 THEN s[i + 1]
    ELSE IF n = 2 THEN (s[i + 1] - 192) * 64 + (s[i + 2] - 128)
    ELSE IF n = 3 THEN
        (s[i + 1] - 224) * 4096 + (s[i + 2] - 128) * 64 + (s[i + 3] - 128)
    ELSE (s[i + 1] - 240) * 262144 + (s[i + 2] - 128) * 4096
         + (s[i + 3] - 128) * 64 + (s[i + 4] - 128)

ReplacementChar == 65533

\* bytes.decode('utf-8', errors): errors is "strict" or "replace".
RECURSIVE utf8_decode_from(_, _, _, _)
utf8_decode_from(s, i, acc, errors) ==
    IF i >= Len(s) THEN Ok(acc)
    ELSE
        LET n == SeqLen(s[i + 1])
            k == ValidPrefix(s, i)
        IN  IF n >= 1 /\ k = n
            THEN utf8_decode_from(s, i + n, Append(acc, CodePoint(s, i, n)), errors)
            ELSE IF errors = "strict"
            THEN Raise("UnicodeDecodeError",
                       IF n = 0 THEN "invalid start byte"
                       ELSE IF i + k >= Len(s) THEN "unexpected end of data"
                       ELSE "invalid continuation byte")
            ELSE utf8_decode_from(s, i + k, Append(acc, ReplacementChar), errors)

utf8_decode(s, errors) == utf8_decode_from(s, 0, <<>>, errors)

-----------------------------------------------------------------------------
(* base64.b64encode / base64.b64decode (binascii.b2a_base64, a2b_base64) *)

\* table_b2a_base64: A-Z a-z 0-9 + /
table_b2a_base64(v) ==
    IF v < 26 THEN 65 + v
    ELSE IF v < 52 THEN 71 + v
    ELSE IF v < 62 THEN v - 4
    ELSE IF v = 62 THEN 43
    ELSE 47

\* table_a2b_base64: the value of a character, 64 for one outside the alphabet
table_a2b_base64(c) ==
    IF c >= 65 /\ c <= 90 THEN c - 65
    ELSE IF c >= 97 /\ c <= 122 THEN c - 71
    ELSE IF c >= 48 /\ c <= 57 THEN c + 4
    ELSE IF c = 43 THEN 62
    ELSE IF c = 47 THEN 63
    ELSE 64

BASE64_PAD == 61

RECURSIVE b64encode(_)
b64encode(bs) ==
    IF bs = <<>> THEN <<>>
    ELSE IF Len(bs) = 1 THEN
        <<table_b2a_base64(bs[1] \div 4), table_b2a_base64((bs[1] % 4) * 16),
          BASE64_PAD, BASE64_PAD>>
    ELSE IF Len(bs) = 2 THEN
        <<table_b2a_base64(bs[1] \div 4),
          table_b2a_base64((bs[1] % 4) * 16 + (bs[2] \div 16)),
          table_b2a_base64((bs[2] % 16) * 4), BASE64_PAD>>
    ELSE
        <<table_b2a_base64(bs[1] \div 4),
          table_b2a_base64((bs[1] % 4) * 16 + (bs[2] \div 16)),
          table_b2a_base64((bs[2] % 16) * 4 + (bs[3] \div 64)),
          table_b2a_base64(bs[3] % 64)>> \o b64encode(From(bs, 3))

\* The loop of a2b_base64 with strict_mode off: a character outside the
\* alphabet is skipped, a pad that completes a quad ends the parse.
RECURSIVE a2b_base64_loop(_, _, _, _, _, _)
a2b_base64_loop(s, i, quad_pos, leftchar, pads, out) ==
    IF i >= Len(s) THEN
        IF quad_pos = 0 THEN Ok(out)
        ELSE IF quad_pos = 1
        THEN Raise("binascii.Error", "Invalid base64-encoded string")
        ELSE Raise("binascii.Error", "Incorrect padding")
    ELSE
        LET c == s[i + 1]
            v == table_a2b_base64(c)
        IN  IF c = BASE64_PAD THEN
                IF quad_pos >= 2 /\ quad_pos + pads + 1 >= 4 THEN Ok(out)
                ELSE a2b_base64_loop(s, i + 1, quad_pos, leftchar,
                                     IF quad_pos >= 2 THEN pads + 1 ELSE pads, out)
            ELSE IF v >= 64 THEN
                a2b_base64_loop(s, i + 1, quad_pos, leftchar, pads, out)
            ELSE IF quad_pos = 0 THEN
                a2b_base64_loop(s, i + 1, 1, v, 0, out)
            ELSE IF quad_pos = 1 THEN
                a2b_base64_loop(s, i + 1, 2, v % 16, 0,
                                Append(out, leftchar * 4 + (v \div 16)))
            ELSE IF quad_pos = 2 THEN
                a2b_base64_loop(s, i + 1, 3, v % 4, 0,
                                Append(out, leftchar * 16 + (v \div 4)))
            ELSE
                a2b_base64_loop(s, i + 1, 0, 0, 0, Append(out, leftchar * 64 + v))

\* _bytes_from_decode_data, then binascii.a2b_base64 (validate=False)
b64decode(s) ==
    IF ~IsAscii(s)
    THEN Raise("ValueError", "string argument should contain only ASCII characters")
    ELSE a2b_base64_loop(s, 0, 0, 0, 0, <<>>)

base64_encode(text) == b64encode(utf8_encode(text))

base64_decode(encoded) ==
    LET r == b64decode(encoded)
    IN  IF IsOk(r) THEN utf8_decode(r.val, "strict") ELSE r

-----------------------------------------------------------------------------
(* base64.b32encode / base64.b32decode *)

RECURSIVE ToBits(_, _)
\* The w low bits of v, most significant first
ToBits(v, w) == IF w = 0 THEN <<>> ELSE ToBits(v \div 2, w - 1) \o <<v % 2>>

RECURSIVE FromBits(_)
FromBits(bits) ==
    IF bits = <<>> THEN 0
    ELSE 2 * FromBits(SubSeq(bits, 1, Len(bits) - 1)) + bits[Len(bits)]

RECURSIVE BitsOf(_, _)
\* The bits of a sequence of w-bit values
BitsOf(vs, w) == IF vs = <<>> THEN <<>> ELSE ToBits(Head(vs), w) \o BitsOf(Tail(vs), w)

RECURSIVE Regroup(_, _)
\* The values of the complete w-bit groups of a bit sequence
Regroup(bits, w) ==
    IF Len(bits) < w THEN <<>>
    ELSE <<FromBits(SubSeq(bits, 1, w))>> \o Regroup(From(bits, w), w)

\* _b32alphabet: A-Z 2-7
b32tab(v) == IF v < 26 THEN 65 + v ELSE 24 + v

\* _b32rev, 32 for a character that is not a key
b32rev(c) ==
    IF c >= 65 /\ c <= 90 THEN c - 65
    ELSE IF c >= 50 /\ c <= 55 THEN c - 24
    ELSE 32

B32Char(seq) == [i \in 1..Len(seq) |-> b32tab(seq[i])]

b32encode(bs) ==
    LET leftover == Len(bs) % 5
        padded == IF leftover = 0 THEN bs ELSE bs \o Repeat(0, 5 - leftover)
        encoded == B32Char(Regroup(BitsOf(padded, 8), 5))
        npad == IF leftover = 1 THEN 6
                ELSE IF leftover = 2 THEN 4
                ELSE IF leftover = 3 THEN 3
                ELSE IF leftover = 4 THEN 1
                ELSE 0
    IN  Take(encoded, Len(encoded) - npad) \o Repeat(BASE64_PAD, npad)

RECURSIVE rstrip(_, _)
\* bytes.rstrip(chars)
rstrip(s, chars) ==
    IF s # <<>> /\ s[Len(s)] \in chars THEN rstrip(SubSeq(s, 1, Len(s) - 1), chars)
    ELSE s

b32decode(s0) ==
    IF ~IsAscii(s0)
    THEN Raise("ValueError", "string argument should contain only ASCII characters")
    ELSE IF Len(s0) % 8 # 0 THEN Raise("binascii.Error", "Incorrect padding")
    ELSE
        LET l == Len(s0)
            s == rstrip(s0, {BASE64_PAD})
            padchars == l - Len(s)
            digits == [i \in 1..Len(s) |-> b32rev(s[i])]
            \* each quantum of up to 8 characters yields acc.to_bytes(5)
            nq == (Len(s) + 7) \div 8
            quantum(q) == SubSeq(digits, 8 * q - 7, Min(8 * q, Len(s)))
            to_bytes(q) == Regroup(ToBits(0, 40 - 5 * Len(quantum(q)))
                                   \o BitsOf(quantum(q), 5), 8)
            decoded == Flatten([q \in 1..nq |-> to_bytes(q)])
            leftover == (43 - 5 * padchars) \div 8
            last == Regroup(BitsOf(quantum(nq), 5) \o ToBits(0, 5 * padchars), 8)
        IN  IF \E i \in 1..Len(s) : digits[i] = 32
            THEN Raise("binascii.Error", "Non-base32 digit found")
            ELSE IF padchars \notin {0, 1, 3, 4, 6}
            THEN Raise("binascii.Error", "Incorrect padding")
            ELSE IF padchars # 0 /\ decoded # <<>>
            THEN Ok(Take(decoded, Len(decoded) - 5) \o Take(last, leftover))
            ELSE Ok(decoded)

base32_encode(text) == b32encode(utf8_encode(text))

base32_decode(encoded) ==
    LET r == b32decode(encoded)
    IN  IF IsOk(r) THEN utf8_decode(r.val, "strict") ELSE r

-----------------------------------------------------------------------------
(* bytes.hex / bytes.fromhex *)

\* _PyLong_DigitValue: 0-9, a-z and A-Z as 10..35, 37 for any other character
DigitValue(c) ==
    IF c >= 48 /\ c <= 57 THEN c - 48
    ELSE IF c >= 97 /\ c <= 122 THEN c - 87
    ELSE IF c >= 65 /\ c <= 90 THEN c - 55
    ELSE 37

\* Py_ISSPACE: space, \t \n \v \f \r
Py_ISSPACE(c) == c = 32 \/ (c >= 9 /\ c <= 13)

hexdigit(v) == IF v < 10 THEN 48 + v ELSE 87 + v

RECURSIVE hex(_)
hex(bs) ==
    IF bs = <<>> THEN <<>>
    ELSE <<hexdigit(Head(bs) \div 16), hexdigit(Head(bs) % 16)>> \o hex(Tail(bs))

RECURSIVE fromhex_loop(_, _, _)
fromhex_loop(s, i, out) ==
    IF i >= Len(s) THEN Ok(out)
    ELSE IF Py_ISSPACE(s[i + 1]) THEN fromhex_loop(s, i + 1, out)
    ELSE IF DigitValue(s[i + 1]) >= 16 \/ i + 1 >= Len(s)
            \/ DigitValue(s[i + 2]) >= 16
    THEN Raise("ValueError", "non-hexadecimal number found in fromhex() arg")
    ELSE fromhex_loop(s, i + 2,
                      Append(out, DigitValue(s[i + 1]) * 16 + DigitValue(s[i + 2])))

fromhex(s) ==
    IF ~IsAscii(s)
    THEN Raise("ValueError", "non-hexadecimal number found in fromhex() arg")
    ELSE fromhex_loop(s, 0, <<>>)

hex_encode(text) == hex(utf8_encode(text))

hex_decode(encoded) ==
    LET r == fromhex(encoded)
    IN  IF IsOk(r) THEN utf8_decode(r.val, "strict") ELSE r

-----------------------------------------------------------------------------
(* urllib.parse.quote / urllib.parse.unquote *)

\* _ALWAYS_SAFE (letters, digits, "_.-~") and the default safe='/'
IsSafe(b) ==
    \/ (b >= 65 /\ b <= 90) \/ (b >= 97 /\ b <= 122) \/ (b >= 48 /\ b <= 57)
    \/ b \in {95, 46, 45, 126}
    \/ b = 47

HEXDIGIT(v) == IF v < 10 THEN 48 + v ELSE 55 + v

PERCENT == 37

RECURSIVE quote_from_bytes(_)
quote_from_bytes(bs) ==
    IF bs = <<>> THEN <<>>
    ELSE (IF IsSafe(Head(bs)) THEN <<Head(bs)>>
          ELSE <<PERCENT, HEXDIGIT(Head(bs) \div 16), HEXDIGIT(Head(bs) % 16)>>)
         \o quote_from_bytes(Tail(bs))

quote(string) == IF string = <<>> THEN string ELSE quote_from_bytes(utf8_encode(string))

\* _hexdig: 0-9 A-F a-f
IsHexDig(c) == DigitValue(c) < 16

\* unquote_to_bytes of an ASCII string: "%XX" becomes a byte, any other "%" stays
RECURSIVE unquote_to_bytes(_)
unquote_to_bytes(s) ==
    IF s = <<>> THEN <<>>
    ELSE IF s[1] = PERCENT /\ Len(s) >= 3 /\ IsHexDig(s[2]) /\ IsHexDig(s[3])
    THEN <<DigitValue(s[2]) * 16 + DigitValue(s[3])>> \o unquote_to_bytes(From(s, 3))
    ELSE <<s[1]>> \o unquote_to_bytes(Tail(s))

\* The length of the run of ASCII characters that starts at offset i
RECURSIVE AsciiRun(_, _)
AsciiRun(s, i) == IF i < Len(s) /\ s[i + 1] < 128 THEN 1 + AsciiRun(s, i + 1) ELSE 0

\* _asciire.split: each run of ASCII characters is unquoted to bytes and decoded
\* with errors='replace'; the other characters are kept
RECURSIVE unquote_from(_, _)
unquote_from(s, i) ==
    IF i >= Len(s) THEN <<>>
    ELSE IF s[i + 1] >= 128 THEN <<s[i + 1]>> \o unquote_from(s, i + 1)
    ELSE LET n == AsciiRun(s, i)
         IN  utf8_decode(unquote_to_bytes(SubSeq(s, i + 1, i + n)), "replace").val
             \o unquote_from(s, i + n)

unquote(string) ==
    IF \A i \in 1..Len(string) : string[i] # PERCENT THEN string
    ELSE unquote_from(string, 0)

url_encode(text) == quote(text)

url_decode(encoded) == Ok(unquote(encoded))

-----------------------------------------------------------------------------
(* html.escape / html.unescape *)

AMP == 38

\* str.replace(old, new) for a one-character old
RECURSIVE replace(_, _, _)
replace(s, old, new) ==
    IF s = <<>> THEN <<>>
    ELSE (IF Head(s) = old THEN new ELSE <<Head(s)>>) \o replace(Tail(s), old, new)

\* The replacements with "&" done last: the "&" of the other entities is escaped
escape_amp_last(s) ==
    LET s2 == replace(s, 60, <<38, 108, 116, 59>>)
        s3 == replace(s2, 62, <<38, 103, 116, 59>>)
        s4 == replace(s3, 34, <<38, 113, 117, 111, 116, 59>>)
        s5 == replace(s4, 39, <<38, 35, 120, 50, 55, 59>>)
    IN  replace(s5, AMP, <<38, 97, 109, 112, 59>>)

\* "&" first, then "<", ">", and with quote=True the two quotation marks
escape(s) ==
    LET s1 == replace(s, AMP, <<38, 97, 109, 112, 59>>)
        s2 == replace(s1, 60, <<38, 108, 116, 59>>)
        s3 == replace(s2, 62, <<38, 103, 116, 59>>)
        s4 == replace(s3, 34, <<38, 113, 117, 111, 116, 59>>)
    IN  replace(s4, 39, <<38, 35, 120, 50, 55, 59>>)

\* html.entities.html5, restricted to the names that can be spelled with the
\* characters of the model's payloads (a m p l g t q u o x H z, digits and ;):
\*   Hat; amalg; amp amp; ap; auml auml; gamma; gap; gg; ggg; gl; gla; gt
\*   gt; lap; laquo laquo; lat; lg; ll; loz; lt lt; malt; map; mp; mu;
\*   mumap; ogt; olt; ouml ouml; pm; quot quot; tau; top; uml uml; uuml
\*   uuml; xmap;
html5 ==
    {
      <<<<72, 97, 116, 59>>, <<94>>>>,
      <<<<97, 109, 97, 108, 103, 59>>, <<10815>>>>,
      <<<<97, 109, 112>>, <<38>>>>,
      <<<<97, 109, 112, 59>>, <<38>>>>,
      <<<<97, 112, 59>>, <<8776>>>>,
      <<<<97, 117, 109, 108>>, <<228>>>>,
      <<<<97, 117, 109, 108, 59>>, <<228>>>>,
      <<<<103, 97, 109, 109, 97, 59>>, <<947>>>>,
      <<<<103, 97, 112, 59>>, <<10886>>>>,
      <<<<103, 103, 59>>, <<8811>>>>,
      <<<<103, 103, 103, 59>>, <<8921>>>>,
      <<<<103, 108, 59>>, <<8823>>>>,
      <<<<103, 108, 97, 59>>, <<10917>>>>,
      <<<<103, 116>>, <<62>>>>,
      <<<<103, 116, 59>>, <<62>>>>,
      <<<<108, 97, 112, 59>>, <<10885>>>>,
      <<<<108, 97, 113, 117, 111>>, <<171>>>>,
      <<<<108, 97, 113, 117, 111, 59>>, <<171>>>>,
      <<<<108, 97, 116, 59>>, <<10923>>>>,
      <<<<108, 103, 59>>, <<8822>>>>,
      <<<<108, 108, 59>>, <<8810>>>>,
      <<<<108, 111, 122, 59>>, <<9674>>>>,
      <<<<108, 116>>, <<60>>>>,
      <<<<108, 116, 59>>, <<60>>>>,
      <<<<109, 97, 108, 116, 59>>, <<10016>>>>,
      <<<<109, 97, 112, 59>>, <<8614>>>>,
      <<<<109, 112, 59>>, <<8723>>>>,
      <<<<109, 117, 59>>, <<956>>>>,
      <<<<109, 117, 109, 97, 112, 59>>, <<8888>>>>,
      <<<<111, 103, 116, 59>>, <<10689>>>>,
      <<<<111, 108, 116, 59>>, <<10688>>>>,
      <<<<111, 117, 109, 108>>, <<246>>>>,
      <<<<111, 117, 109, 108, 59>>, <<246>>>>,
      <<<<112, 109, 59>>, <<177>>>>,
      <<<<113, 117, 111, 116>>, <<34>>>>,
      <<<<113, 117, 111, 116, 59>>, <<34>>>>,
      <<<<116, 97, 117, 59>>, <<964>>>>,
      <<<<116, 111, 112, 59>>, <<8868>>>>,
      <<<<117, 109, 108>>, <<168>>>>,
      <<<<117, 109, 108, 59>>, <<168>>>>,
      <<<<117, 117, 109, 108>>, <<252>>>>,
      <<<<117, 117, 109, 108, 59>>, <<252>>>>,
      <<<<120, 109, 97, 112, 59>>, <<10236>>>>
    }

in_html5(s) == \E e \in html5 : e[1] = s

html5_value(s) == (CHOOSE e \in html5 : e[1] = s)[2]

\* _invalid_charrefs
invalid_charrefs(num) ==
    CASE num = 0 -> 65533
      [] num = 13 -> 13
      [] num = 128 -> 8364
      [] num = 130 -> 8218
      [] num = 131 -> 402
      [] num = 132 -> 8222
      [] num = 133 -> 8230
      [] num = 134 -> 8224
      [] num = 135 -> 8225
      [] num = 136 -> 710
      [] num = 137 -> 8240
      [] num = 138 -> 352
      [] num = 139 -> 8249
      [] num = 140 -> 338
      [] num = 142 -> 381
      [] num = 145 -> 8216
      [] num = 146 -> 8217
      [] num = 147 -> 8220
      [] num = 148 -> 8221
      [] num = 149 -> 8226
      [] num = 150 -> 8211
      [] num = 151 -> 8212
      [] num = 152 -> 732
      [] num = 153 -> 8482
      [] num = 154 -> 353
      [] num = 155 -> 8250
      [] num = 156 -> 339
      [] num = 158 -> 382
      [] num = 159 -> 376
      [] OTHER -> num

in_invalid_charrefs(num) == num = 0 \/ num = 13 \/ (num >= 128 /\ num <= 159)

in_invalid_codepoints(num) ==
    \/ (num >= 1 /\ num <= 8)
    \/ (num >= 14 /\ num <= 31)
    \/ (num >= 127 /\ num <= 159)
    \/ (num >= 64976 /\ num <= 65007)
    \/ num = 11
    \/ (num >= 65534 /\ num <= 1114111 /\ num % 65536 >= 65534)

MAX_UNICODE == 1114111

\* int(digits, base) for a run of digits, kept at MAX_UNICODE + 1 once above it
RECURSIVE charref_int(_, _, _)
charref_int(digits, base, acc) ==
    IF digits = <<>> THEN acc
    ELSE charref_int(Tail(digits), base,
                     Min(acc * base + DigitValue(Head(digits)), MAX_UNICODE + 1))

numeric_charref(num) ==
    IF in_invalid_charrefs(num) THEN <<invalid_charrefs(num)>>
    ELSE IF (num >= 55296 /\ num <= 57343) \/ num > MAX_UNICODE THEN <<ReplacementChar>>
    ELSE IF in_invalid_codepoints(num) THEN <<>>
    ELSE <<num>>

\* The longest x in 2..upto with s[:x] in html5, 0 when there is none
RECURSIVE longest_name(_, _)
longest_name(s, upto) ==
    IF upto < 2 THEN 0
    ELSE IF in_html5(Take(s, upto)) THEN upto
    ELSE longest_name(s, upto - 1)

named_charref(s) ==
    IF in_html5(s) THEN html5_value(s)
    ELSE LET x == longest_name(s, Len(s) - 1)
         IN  IF x # 0 THEN html5_value(Take(s, x)) \o From(s, x)
             ELSE <<AMP>> \o s

SEMI == 59

IsDecDigit(c) == c >= 48 /\ c <= 57

\* [^\t\n\f <&#;]
IsNameChar(c) == c \notin {9, 10, 12, 32, 60, 38, 35, 59}

\* The character classes of _charref: [0-9], [0-9a-fA-F], [^\t\n\f <&#;]
InClass(class, c) ==
    CASE class = "dec" -> IsDecDigit(c)
      [] class = "hex" -> IsHexDig(c)
      [] class = "name" -> IsNameChar(c)

\* The length of the run, from offset i, of characters of a class, at most max
RECURSIVE Run(_, _, _, _)
Run(s, i, class, max) ==
    IF max > 0 /\ i < Len(s) /\ InClass(class, s[i + 1])
    THEN 1 + Run(s, i + 1, class, max - 1)
    ELSE 0

\* 1 when s has ";" at offset i, else 0: the ";?" of _charref
OptSemi(s, i) == IF i < Len(s) /\ s[i + 1] = SEMI THEN 1 ELSE 0

\* _charref.sub(_replace_charref, s), scanning from offset i
RECURSIVE unescape_from(_, _)
unescape_from(s, i) ==
    IF i >= Len(s) THEN <<>>
    ELSE IF s[i + 1] # AMP THEN <<s[i + 1]>> \o unescape_from(s, i + 1)
    ELSE
        LET hash == i + 1 < Len(s) /\ s[i + 2] = 35
            dec == IF hash THEN Run(s, i + 2, "dec", Len(s)) ELSE 0
            isx == hash /\ i + 2 < Len(s) /\ s[i + 3] \in {120, 88}
            hx == IF isx THEN Run(s, i + 3, "hex", Len(s)) ELSE 0
            nm == Run(s, i + 1, "name", 32)
        IN  IF dec > 0 THEN
                numeric_charref(charref_int(SubSeq(s, i + 3, i + 2 + dec), 10, 0))
                \o unescape_from(s, i + 2 + dec + OptSemi(s, i + 2 + dec))
            ELSE IF hx > 0 THEN
                numeric_charref(charref_int(SubSeq(s, i + 4, i + 3 + hx), 16, 0))
                \o unescape_from(s, i + 3 + hx + OptSemi(s, i + 3 + hx))
            ELSE IF nm > 0 THEN
                LET n == nm + OptSemi(s, i + 1 + nm)
                IN  named_charref(SubSeq(s, i + 2, i + 1 + n))
                    \o unescape_from(s, i + 1 + n)
            ELSE <<AMP>> \o unescape_from(s, i + 1)

unescape(s) ==
    IF \A i \in 1..Len(s) : s[i] # AMP THEN s ELSE unescape_from(s, 0)

html_encode(text) == escape(text)

html_decode(encoded) == Ok(unescape(encoded))

-----------------------------------------------------------------------------
(* codecs.encode(text, 'rot_13') / codecs.decode(encoded, 'rot_13') *)

\* The map with the capital letters only
rot13_map_upper(c) ==
    IF c >= 65 /\ c <= 77 THEN c + 13
    ELSE IF c >= 78 /\ c <= 90 THEN c - 13
    ELSE c

\* encodings.rot_13.rot13_map: the identity but for A-Z and a-z
rot13_map(c) ==
    IF (c >= 65 /\ c <= 77) \/ (c >= 97 /\ c <= 109) THEN c + 13
    ELSE IF (c >= 78 /\ c <= 90) \/ (c >= 110 /\ c <= 122) THEN c - 13
    ELSE c

\* str.translate(input, rot13_map)
translate(input) == [i \in 1..Len(input) |-> rot13_map(input[i])]

rot13_encode(text) == translate(text)

rot13_decode(encoded) == Ok(translate(encoded))

-----------------------------------------------------------------------------
(* base64.a85encode / base64.a85decode *)
(* A 32-bit word is kept as its two 16-bit halves <<hi, lo>>.              *)

Word(b) == <<b[1] * 256 + b[2], b[3] * 256 + b[4]>>

WordBytes(w) == <<w[1] \div 256, w[1] % 256, w[2] \div 256, w[2] % 256>>

\* word // 85 and word % 85
Div85(w) == <<w[1] \div 85, ((w[1] % 85) * 65536 + w[2]) \div 85>>

Mod85(w) == ((w[1] % 85) * 65536 + w[2]) % 85

\* The five base-85 digits of a word as characters "!".."u"
a85chunk(w) ==
    LET w1 == Div85(w)
        w2 == Div85(w1)
        w3 == Div85(w2)
        w4 == Div85(w3)
    IN  <<33 + Mod85(w4), 33 + Mod85(w3), 33 + Mod85(w2), 33 + Mod85(w1),
          33 + Mod85(w)>>

LETTER_z == 122

LETTER_u == 117

\* The chunks of _85encode with foldnuls=True
RECURSIVE a85chunks(_)
a85chunks(b) ==
    IF b = <<>> THEN <<>>
    ELSE <<IF Word(b) = <<0, 0>> THEN <<LETTER_z>> ELSE a85chunk(Word(b))>>
         \o a85chunks(From(b, 4))

a85encode(b0) ==
    LET padding == (4 - (Len(b0) % 4)) % 4
        b == b0 \o Repeat(0, padding)
        chunks == a85chunks(b)
        n == Len(chunks)
        last == IF chunks[n] = <<LETTER_z>> THEN Repeat(33, 5) ELSE chunks[n]
    IN  IF padding # 0
        THEN Flatten(SubSeq(chunks, 1, n - 1)) \o Take(last, Len(last) - padding)
        ELSE Flatten(chunks)

\* acc = 85 * acc + d
Acc85(w, d) ==
    LET lo == w[2] * 85 + d
    IN  <<w[1] * 85 + (lo \div 65536), lo % 65536>>

Acc5(curr) ==
    Acc85(Acc85(Acc85(Acc85(Acc85(<<0, 0>>, curr[1] - 33), curr[2] - 33),
                            curr[3] - 33), curr[4] - 33), curr[5] - 33)

\* ignorechars = b' \t\n\r\v'
a85_ignorechars == {32, 9, 10, 13, 11}

\* The loop of a85decode over b + b'u' * 4
RECURSIVE a85decode_loop(_, _, _, _)
a85decode_loop(b, i, curr, decoded) ==
    IF i >= Len(b) THEN
        LET padding == 4 - Len(curr)
        IN  Ok(IF padding # 0 THEN Take(decoded, Len(decoded) - padding) ELSE decoded)
    ELSE
        LET x == b[i + 1]
        IN  IF x >= 33 /\ x <= LETTER_u THEN
                IF Len(curr) = 4 THEN
                    LET acc == Acc5(Append(curr, x))
                    IN  IF acc[1] >= 65536 THEN Raise("ValueError", "Ascii85 overflow")
                        ELSE a85decode_loop(b, i + 1, <<>>, decoded \o WordBytes(acc))
                ELSE a85decode_loop(b, i + 1, Append(curr, x), decoded)
            ELSE IF x = LETTER_z THEN
                IF curr # <<>> THEN Raise("ValueError", "z inside Ascii85 5-tuple")
                ELSE a85decode_loop(b, i + 1, curr, decoded \o <<0, 0, 0, 0>>)
            ELSE IF x \in a85_ignorechars THEN a85decode_loop(b, i + 1, curr, decoded)
            ELSE Raise("ValueError", "Non-Ascii85 digit found")

a85decode(b) ==
    IF ~IsAscii(b)
    THEN Raise("ValueError", "string argument should contain only ASCII characters")
    ELSE a85decode_loop(b \o Repeat(LETTER_u, 4), 0, <<>>, <<>>)

ascii85_encode(text) == a85encode(utf8_encode(text))

ascii85_decode(encoded) ==
    LET r == a85decode(encoded)
    IN  IF IsOk(r) THEN utf8_decode(r.val, "strict") ELSE r

-----------------------------------------------------------------------------
(* format(byte, '08b') / format(byte, '03o'), str.split, int(token, base), *)
(* bytearray(ints)                                                         *)

RECURSIVE digits_of(_, _)
\* The digits of v >= 0 in the base, at least one
digits_of(v, base) ==
    IF v < base THEN <<48 + v>> ELSE digits_of(v \div base, base) \o <<48 + (v % base)>>

\* The digits without the zero padding
format_unpadded(v, base, width) == digits_of(v, base)

\* format(v, '0<width><b|o>'): zero-padded to the width, never cut
format(v, base, width) ==
    LET d == digits_of(v, base) IN Repeat(48, width - Len(d)) \o d

SPACE == 32

\* str.isspace
isspace(c) ==
    \/ (c >= 9 /\ c <= 13) \/ (c >= 28 /\ c <= 32) \/ c = 133 \/ c = 160
    \/ c = 5760 \/ (c >= 8192 /\ c <= 8202) \/ c \in {8232, 8233, 8239, 8287, 12288}

\* encoded.strip().split(): the maximal runs of characters that are not whitespace
RECURSIVE split_from(_, _, _)
split_from(s, i, cur) ==
    IF i >= Len(s) THEN (IF cur = <<>> THEN <<>> ELSE <<cur>>)
    ELSE IF isspace(s[i + 1])
    THEN (IF cur = <<>> THEN <<>> ELSE <<cur>>) \o split_from(s, i + 1, <<>>)
    ELSE split_from(s, i + 1, Append(cur, s[i + 1]))

split(s) == split_from(s, 0, <<>>)

UNDERSCORE == 95

\* long_from_binary_base: digits below the base with single underscores between
\* them; the value, or -1 when the run is not of that form
RECURSIVE digits_value(_, _, _, _)
digits_value(s, base, prev, acc) ==
    IF s = <<>> THEN (IF prev = UNDERSCORE THEN -1 ELSE acc)
    ELSE IF Head(s) = UNDERSCORE
    THEN (IF prev = UNDERSCORE THEN -1 ELSE digits_value(Tail(s), base, Head(s), acc))
    ELSE IF DigitValue(Head(s)) >= base THEN -1
    ELSE digits_value(Tail(s), base, Head(s), acc * base + DigitValue(Head(s)))

\* int(token, base) for base 2 or 8 and a token without whitespace: an optional
\* sign, an optional 0b / 0o prefix (then one optional underscore), the digits
int(token, base) ==
    LET signed == token # <<>> /\ token[1] \in {43, 45}
        body == IF signed THEN Tail(token) ELSE token
        letters == IF base = 2 THEN {98, 66} ELSE {111, 79}
        prefixed == Len(body) >= 2 /\ body[1] = 48 /\ body[2] \in letters
        s1 == IF prefixed THEN From(body, 2) ELSE body
        s2 == IF prefixed /\ s1 # <<>> /\ s1[1] = UNDERSCORE THEN Tail(s1) ELSE s1
        v == IF s2 = <<>> \/ s2[1] = UNDERSCORE THEN -1
             ELSE digits_value(s2, base, 0, 0)
    IN  IF v < 0 THEN Raise("ValueError", "invalid literal for int()")
        ELSE Ok(IF signed /\ token[1] = 45 THEN 0 - v ELSE v)

\* The item kept modulo 256 instead of being refused
byte_mod256(v) == Ok(v % 256)

\* An item of a bytearray: an integer in range(0, 256)
byte(v) ==
    IF v < 0 \/ v > 255 THEN Raise("ValueError", "byte must be in range(0, 256)")
    ELSE Ok(v)

\* bytearray(int(t, base) for t in tokens): the first token that is no literal or
\* whose value is no byte raises
RECURSIVE bytearray(_, _)
bytearray(tokens, base) ==
    IF tokens = <<>> THEN Ok(<<>>)
    ELSE LET v == int(Head(tokens), base)
             b == byte(v.val)
         IN  IF ~IsOk(v) THEN v
             ELSE IF ~IsOk(b) THEN b
             ELSE LET rest == bytearray(Tail(tokens), base)
                  IN  IF IsOk(rest) THEN Ok(<<b.val>> \o rest.val) ELSE rest

binary_encode(text) ==
    LET bs == utf8_encode(text)
    IN  Join(<<SPACE>>, [i \in 1..Len(bs) |-> format(bs[i], 2, 8)])

binary_decode(encoded) ==
    LET binary_bytes == split(encoded)
        byte_array == bytearray(binary_bytes, 2)
    IN  IF IsOk(byte_array) THEN utf8_decode(byte_array.val, "strict") ELSE byte_array

octal_encode(text) ==
    LET bs == utf8_encode(text)
    IN  Join(<<SPACE>>, [i \in 1..Len(bs) |-> format(bs[i], 8, 3)])

octal_decode(encoded) ==
    LET octal_bytes == split(encoded)
        byte_array == bytearray(octal_bytes, 8)
    IN  IF IsOk(byte_array) THEN utf8_decode(byte_array.val, "strict") ELSE byte_array

-----------------------------------------------------------------------------
(* EncoderDecoder: the registry and the dispatch by name *)

Entry(n, d) ==
    [name |-> n, encode |-> n \o "_encode", decode |-> n \o "_decode", description |-> d]

\* EncoderDecoder.__init__: the dict literal, in insertion order
Registry ==
    << Entry("base64", "Base64 encoding (RFC 4648)"),
       Entry("base32", "Base32 encoding (RFC 4648)"),
       Entry("hex", "Hexadecimal encoding"),
       Entry("url", "URL/Percent encoding (RFC 3986)"),
       Entry("html", "HTML entity encoding"),
       Entry("rot13", "ROT13 substitution cipher"),
       Entry("ascii85", "ASCII85/Base85 encoding"),
       Entry("binary", "Binary representation (base 2)"),
       Entry("octal", "Octal representation (base 8)") >>

\* The call of a bound method of TextEncoder
CallCodec(fn, text) ==
    CASE fn = "base64_encode" -> Ok(base64_encode(text))
      [] fn = "base64_decode" -> base64_decode(text)
      [] fn = "base32_encode" -> Ok(base32_encode(text))
      [] fn = "base32_decode" -> base32_decode(text)
      [] fn = "hex_encode" -> Ok(hex_encode(text))
      [] fn = "hex_decode" -> hex_decode(text)
      [] fn = "url_encode" -> Ok(url_encode(text))
      [] fn = "url_decode" -> url_decode(text)
      [] fn = "html_encode" -> Ok(html_encode(text))
      [] fn = "html_decode" -> html_decode(text)
      [] fn = "rot13_encode" -> Ok(rot13_encode(text))
      [] fn = "rot13_decode" -> rot13_decode(text)
      [] fn = "ascii85_encode" -> Ok(ascii85_encode(text))
      [] fn = "ascii85_decode" -> ascii85_decode(text)
      [] fn = "binary_encode" -> Ok(binary_encode(text))
      [] fn = "binary_decode" -> binary_decode(text)
      [] fn = "octal_encode" -> Ok(octal_encode(text))
      [] fn = "octal_decode" -> octal_decode(text)

\* `encoding in self.encodings`
Has(reg, encoding) == \E i \in 1..Len(reg) : reg[i].name = encoding

\* `self.encodings[encoding]`
Lookup(reg, encoding) == reg[CHOOSE i \in 1..Len(reg) : reg[i].name = encoding]

\* What a call did: the function of TextEncoder it invoked ("" for none) and
\* what it returned or raised
Outcome(fn, r) == [invoked |-> fn, exc |-> r.exc, msg |-> r.msg, val |-> r.val]

\* The lookup without the membership test: an unknown name is a KeyError
encode_unchecked(reg, text, encoding) ==
    IF ~Has(reg, encoding) THEN Outcome("", Raise("KeyError", encoding))
    ELSE LET fn == Lookup(reg, encoding).encode IN Outcome(fn, CallCodec(fn, text))

encode(reg, text, encoding) ==
    IF ~Has(reg, encoding)
    THEN Outcome("", Raise("ValueError", "Unsupported encoding: " \o encoding))
    ELSE LET fn == Lookup(reg, encoding).encode IN Outcome(fn, CallCodec(fn, text))

decode(reg, text, encoding) ==
    IF ~Has(reg, encoding)
    THEN Outcome("", Raise("ValueError", "Unsupported encoding: " \o encoding))
    ELSE LET fn == Lookup(reg, encoding).decode IN Outcome(fn, CallCodec(fn, text))

\* The entries in the order of their names instead of insertion order
list_encodings_sorted(reg) ==
    LET order == <<7, 2, 1, 8, 3, 5, 9, 6, 4>>
    IN  [i \in 1..Len(reg) |-> <<reg[order[i]].name, reg[order[i]].description>>]

\* {name: info['description'] for name, info in self.encodings.items()}
list_encodings(reg) == [i \in 1..Len(reg) |-> <<reg[i].name, reg[i].description>>]

-----------------------------------------------------------------------------
(* The inputs of the model *)

MaxTextLen == 2

MaxCalls == 2

\* space & H z, U+00E9 (2 bytes in UTF-8), U+20AC (3 bytes)
TextChars == {32, 38, 72, 122, 233, 8364}

\* "Hello, World!", "abc", "A B", "<b>", "Hello", "A", four NULs, the quotes,
\* U+1F600 (4 bytes)
ExampleTexts ==
    { <<72, 101, 108, 108, 111, 44, 32, 87, 111, 114, 108, 100, 33>>,
      <<97, 98, 99>>, <<65, 32, 66>>, <<60, 98, 62>>, <<72, 101, 108, 108, 111>>, <<65>>,
      <<0, 0, 0, 0>>, <<34, 39>>, <<128512>> }

Texts == UNION {[1..n -> TextChars] : n \in 0..MaxTextLen} \cup ExampleTexts

\* The texts whose encodings are damaged: none, 1, 2 and 3 bytes
SeedTexts == {<<>>, <<72>>, <<233>>, <<8364>>}

SchemeNames == {Registry[i].name : i \in 1..Len(Registry)}

\* Names that are no key of the registry: a case variant, surrounding
\* whitespace, an unknown name, the empty name
OtherNames == {"Base64", " base64", "hex ", "made-up-scheme", ""}

\* Characters an encoded text is damaged with, per scheme
EditChars(n) ==
    CASE n = "base64" -> {61, 33, 10, 81, 233}
      [] n = "base32" -> {61, 97, 49, 65, 233}
      [] n = "hex" -> {70, 103, 32, 48, 233}
      [] n = "url" -> {37, 70, 103, 233}
      [] n = "ascii85" -> {122, 118, 32, 117, 33}
      [] n = "binary" -> {48, 49, 50, 32, 45, 95}
      [] n = "octal" -> {48, 55, 56, 32, 45, 95}
      [] OTHER -> {}

Delete(s, i) == SubSeq(s, 1, i - 1) \o SubSeq(s, i + 1, Len(s))

Insert(s, i, c) == SubSeq(s, 1, i) \o <<c>> \o SubSeq(s, i + 1, Len(s))

Replace(s, i, c) == [s EXCEPT ![i] = c]

\* s and every text one character away from it
Edits(s, chars) ==
    {s} \cup {Delete(s, i) : i \in 1..Len(s)}
        \cup {Insert(s, i, c) : i \in 0..Len(s), c \in chars}
        \cup {Replace(s, i, c) : i \in 1..Len(s), c \in chars}

\* Encoded texts given to decode that no encode call produced
Examples(n) ==
    CASE n = "base64" -> { <<83, 71, 86, 115, 98, 71, 56>>, <<81, 81, 61, 61, 61>>, <<81, 85, 74, 68, 61>> }
      [] n = "hex" -> { <<122, 122>>, <<102, 102>>, <<52, 65>> }
      [] n = "url" -> { <<37, 70, 70>>, <<65, 37, 50, 48, 66>> }
      [] n = "html" -> { <<38, 97, 109, 112>>, <<38, 108, 116, 38, 103, 116>>, <<38, 35, 51, 56, 59>>, <<38, 35, 120, 48, 59>>, <<38, 35, 49, 50, 56, 59>>, <<38, 97, 109, 112, 120>> }
      [] n = "binary" -> { <<49, 49, 49, 49, 49, 49, 49, 32, 48, 48, 48, 48, 48, 48, 48, 48>>, <<49, 48, 49, 48, 48, 48, 48, 48, 49>>, <<48, 98, 49, 48, 48, 48, 48, 48, 49>> }
      [] n = "octal" -> { <<55, 55, 55, 32, 57, 57, 57>>, <<55, 55, 55>>, <<49, 48, 49>>, <<48, 111, 49, 48, 49>> }
      [] OTHER -> {}

Malformed(n) ==
    Examples(n) \cup
    UNION {Edits(CallCodec(n \o "_encode", t).val, EditChars(n)) : t \in SeedTexts}

Payloads(n) ==
    IF n \in SchemeNames THEN Texts \cup Malformed(n) ELSE SeedTexts

-----------------------------------------------------------------------------
(* A caller holds one EncoderDecoder, a payload and a scheme name, and calls *)
(* encode, decode and list_encodings; a returned text becomes its payload.   *)

Call(op, text, encoding, o) ==
    [op |-> op, text |-> text, encoding |-> encoding,
     invoked |-> o.invoked, exc |-> o.exc, msg |-> o.msg, val |-> o.val]

Init ==
    /\ encodings = Registry
    /\ log = <<>>
    /\ scheme \in SchemeNames \cup OtherNames
    /\ payload \in Payloads(scheme)

Encode ==
    /\ Len(log) < MaxCalls
    /\ LET o == encode(encodings, payload, scheme)
       IN  /\ log' = Append(log, Call("encode", payload, scheme, o))
           /\ payload' = IF o.exc = "" THEN o.val ELSE payload
    /\ UNCHANGED <<encodings, scheme>>

Decode ==
    /\ Len(log) < MaxCalls
    /\ LET o == decode(encodings, payload, scheme)
       IN  /\ log' = Append(log, Call("decode", payload, scheme, o))
           /\ payload' = IF o.exc = "" THEN o.val ELSE payload
    /\ UNCHANGED <<encodings, scheme>>

ListEncodings ==
    /\ Len(log) < MaxCalls
    /\ log' = Append(log, Call("list", <<>>, "", Outcome("", Ok(list_encodings(encodings)))))
    /\ UNCHANGED <<encodings, payload, scheme>>

Next == Encode \/ Decode \/ ListEncodings

Spec == Init /\ [][Next]_vars

-----------------------------------------------------------------------------
(* The claims *)

\* The nine scheme names of the specification
NineNames ==
    {"base64", "base32", "hex", "url", "html", "rot13", "ascii85", "binary", "octal"}

Calls == 1..Len(log)

Returned(c) == c.exc = ""

\* A text with a character outside ASCII
NonAscii(t) == \E k \in 1..Len(t) : t[k] >= 128

\* C1: round trip.  Under each of the nine schemes encode returns, and decode
\* of what encode returned, under the same scheme, returns exactly the text
\* that was encoded.
C1_RoundTrip ==
    \A i \in Calls :
        (log[i].op = "encode" /\ log[i].encoding \in NineNames) =>
            /\ Returned(log[i])
            /\ \A j \in Calls :
                   (j = i + 1 /\ log[j].op = "decode" /\ log[j].text = log[i].val
                    /\ log[j].encoding = log[i].encoding) =>
                       (Returned(log[j]) /\ log[j].val = log[i].text)

C1_Witness ==
    /\ Len(log) = 2
    /\ log[1].op = "encode" /\ log[1].encoding = "ascii85"
    /\ NonAscii(log[1].text) /\ Len(log[1].text) = 2
    /\ log[2].op = "decode" /\ log[2].text = log[1].val
    /\ log[2].val = log[1].text

\* C2: a scheme name that is not exactly one of the nine names makes encode
\* and decode raise the unsupported-encoding ValueError, and no function of
\* TextEncoder is invoked.
C2_UnsupportedScheme ==
    \A i \in Calls :
        (log[i].op \in {"encode", "decode"} /\ log[i].encoding \notin NineNames) =>
            /\ log[i].exc = "ValueError"
            /\ log[i].msg = "Unsupported encoding: " \o log[i].encoding
            /\ log[i].invoked = ""

C2_Witness ==
    /\ Len(log) = 2
    /\ log[1].op = "encode" /\ log[1].encoding = "Base64" /\ log[1].text # <<>>
    /\ log[1].exc = "ValueError" /\ log[1].invoked = ""
    /\ log[2].op = "decode" /\ log[2].exc = "ValueError"

\* The nine (name, description) entries in registration order
ExpectedListing ==
    << <<"base64", "Base64 encoding (RFC 4648)">>,
       <<"base32", "Base32 encoding (RFC 4648)">>,
       <<"hex", "Hexadecimal encoding">>,
       <<"url", "URL/Percent encoding (RFC 3986)">>,
       <<"html", "HTML entity encoding">>,
       <<"rot13", "ROT13 substitution cipher">>,
       <<"ascii85", "ASCII85/Base85 encoding">>,
       <<"binary", "Binary representation (base 2)">>,
       <<"octal", "Octal representation (base 8)">> >>

\* C3: after construction and after any calls, returning or raising, every
\* list_encodings call has returned, and a further one would return, the same
\* nine (name, description) entries in registration order.
C3_StableListing ==
    /\ list_encodings(encodings) = ExpectedListing
    /\ \A i \in Calls : log[i].op = "list" => log[i].val = ExpectedListing

C3_Witness ==
    /\ Len(log) = 2
    /\ log[1].op = "decode" /\ log[1].encoding = "hex" /\ ~Returned(log[1])
    /\ log[2].op = "list" /\ Len(log[2].val) = 9

\* C4: binary decode raises whenever a whitespace-separated token of its input
\* is not exactly 8 characters long.
C4_BinaryTokenWidth ==
    \A i \in Calls :
        (/\ log[i].op = "decode" /\ log[i].encoding = "binary"
         /\ \E k \in 1..Len(split(log[i].text)) : Len(split(log[i].text)[k]) # 8)
        => ~Returned(log[i])

IsUpper(c) == c >= 65 /\ c <= 90

IsLower(c) == c >= 97 /\ c <= 122

\* The alphabet of a scheme's encoded form
InAlphabet(n, c) ==
    CASE n = "base64" -> IsUpper(c) \/ IsLower(c) \/ IsDecDigit(c) \/ c \in {43, 47, 61}
      [] n = "base32" -> IsUpper(c) \/ (c >= 50 /\ c <= 55) \/ c = 61
      [] n = "hex" -> IsDecDigit(c) \/ (c >= 97 /\ c <= 102)
      [] n = "ascii85" -> (c >= 33 /\ c <= 117) \/ c = 122
      [] n = "binary" -> c \in {48, 49} \/ isspace(c)
      [] n = "octal" -> (c >= 48 /\ c <= 55) \/ isspace(c)

\* C5: under base64, base32, hex, ascii85, binary and octal, decode raises
\* whenever its input holds a character outside the scheme's alphabet.
C5_AlphabetChecked ==
    \A i \in Calls :
        (/\ log[i].op = "decode"
         /\ log[i].encoding \in {"base64", "base32", "hex", "ascii85", "binary", "octal"}
         /\ \E k \in 1..Len(log[i].text) : ~InAlphabet(log[i].encoding, log[i].text[k]))
        => ~Returned(log[i])

\* The bytes a scheme's decode reconstructs before it reads them as UTF-8
RawBytes(n, text) ==
    CASE n = "base64" -> b64decode(text)
      [] n = "base32" -> b32decode(text)
      [] n = "hex" -> fromhex(text)
      [] n = "url" -> Ok(unquote_to_bytes(utf8_encode(text)))
      [] n = "ascii85" -> a85decode(text)
      [] n = "binary" -> bytearray(split(text), 2)
      [] n = "octal" -> bytearray(split(text), 8)

\* C6: under base64, base32, hex, url, ascii85, binary and octal, decode raises
\* whenever the bytes it reconstructs are not valid UTF-8.
C6_InvalidUtf8Raises ==
    \A i \in Calls :
        (/\ log[i].op = "decode"
         /\ log[i].encoding \in
                {"base64", "base32", "hex", "url", "ascii85", "binary", "octal"}
         /\ IsOk(RawBytes(log[i].encoding, log[i].text))
         /\ ~IsOk(utf8_decode(RawBytes(log[i].encoding, log[i].text).val, "strict")))
        => ~Returned(log[i])

Base(n) == IF n = "binary" THEN 2 ELSE 8

\* A token of the text is an integer literal whose value is no byte
OutOfRangeToken(text, base) ==
    \E k \in 1..Len(split(text)) :
        LET v == int(split(text)[k], base)
        IN  IsOk(v) /\ (v.val < 0 \/ v.val > 255)

\* C7: under binary and octal, decode raises ValueError and returns nothing
\* whenever a whitespace-separated token is an integer outside 0..255.
C7_ByteRange ==
    \A i \in Calls :
        (/\ log[i].op = "decode" /\ log[i].encoding \in {"binary", "octal"}
         /\ OutOfRangeToken(log[i].text, Base(log[i].encoding)))
        => (log[i].exc = "ValueError" /\ log[i].val = <<>>)

C7_Witness ==
    /\ Len(log) = 1
    /\ log[1].op = "decode" /\ log[1].encoding = "octal"
    /\ log[1].text = <<55, 55, 55>>
    /\ log[1].exc = "ValueError" /\ log[1].msg = "byte must be in range(0, 256)"

HexDigitCount(t) == Cardinality({k \in 1..Len(t) : IsHexDig(t[k])})

\* C8: hex decode raises on an odd number of hex digits, and base64 decode
\* raises on an input whose length is no multiple of 4.
C8_LengthChecked ==
    \A i \in Calls :
        (/\ log[i].op = "decode"
         /\ \/ (log[i].encoding = "hex" /\ HexDigitCount(log[i].text) % 2 = 1)
            \/ (log[i].encoding = "base64" /\ Len(log[i].text) % 4 # 0))
        => ~Returned(log[i])

\* A Latin letter moved 13 places within its case, any other character kept
Shift13(c) ==
    IF IsUpper(c) THEN 65 + ((c - 65 + 13) % 26)
    ELSE IF IsLower(c) THEN 97 + ((c - 97 + 13) % 26)
    ELSE c

\* C9: under rot13 both encode and decode return the text with each Latin
\* letter moved 13 places within its case and every other character kept in
\* place, and a second rot13 call on the result returns the first text.
C9_Rot13 ==
    \A i \in Calls :
        (log[i].op \in {"encode", "decode"} /\ log[i].encoding = "rot13") =>
            /\ Returned(log[i])
            /\ Len(log[i].val) = Len(log[i].text)
            /\ \A k \in 1..Len(log[i].text) : log[i].val[k] = Shift13(log[i].text[k])
            /\ \A j \in Calls :
                   (j = i + 1 /\ log[j].op \in {"encode", "decode"}
                    /\ log[j].text = log[i].val) => log[j].val = log[i].text

C9_Witness ==
    /\ Len(log) = 2
    /\ log[1].op = "encode" /\ log[1].encoding = "rot13"
    /\ log[1].text = <<72, 101, 108, 108, 111>>
    /\ log[1].val = <<85, 114, 121, 121, 98>>
    /\ log[2].op = "encode" /\ log[2].val = log[1].text

\* The value of a run of digits in a base
RECURSIVE ValueOf(_, _)
ValueOf(ds, base) ==
    IF ds = <<>> THEN 0
    ELSE base * ValueOf(SubSeq(ds, 1, Len(ds) - 1), base) + (ds[Len(ds)] - 48)

\* rep is n tokens of w digits below the base, the k-th the value of bs[k],
\* with one space between two tokens and nothing before or after
Tokens(rep, bs, base, w) ==
    LET n == Len(bs)
    IN  /\ Len(rep) = IF n = 0 THEN 0 ELSE n * (w + 1) - 1
        /\ \A k \in 1..n :
               LET from == (k - 1) * (w + 1)
                   tok == SubSeq(rep, from + 1, from + w)
               IN  /\ \A d \in 1..w : tok[d] >= 48 /\ tok[d] < 48 + base
                   /\ ValueOf(tok, base) = bs[k]
                   /\ (k < n => rep[from + w + 1] = 32)

\* C10: encode under binary returns one token of 8 binary digits, and under
\* octal one token of 3 octal digits, per UTF-8 byte of the text, in order,
\* zero-padded, joined by single spaces; the empty text gives the empty text.
C10_TokenFormat ==
    \A i \in Calls :
        (log[i].op = "encode" /\ log[i].encoding \in {"binary", "octal"}) =>
            /\ Returned(log[i])
            /\ Tokens(log[i].val, utf8_encode(log[i].text), Base(log[i].encoding),
                      IF log[i].encoding = "binary" THEN 8 ELSE 3)

C10_Witness ==
    /\ Len(log) = 1
    /\ log[1].op = "encode" /\ log[1].encoding = "binary"
    /\ log[1].text = <<38, 233>>
    /\ Len(log[1].val) = 26

====
